---------------------------- MODULE Spec2Model ----------------------------
(***************************************************************************)
(* The Futuristic Novel Reader API (src/main.py, src/schemas.py): FastAPI  *)
(* handlers over three MongoDB collections, "novel", "chapter" and         *)
(* "progress".                                                             *)
(*                                                                         *)
(* Conventions of the model                                                *)
(*  - a Python str that is parsed as an identifier is a tuple of           *)
(*    one-character strings (<<"a","b">> is "ab"); the other strings are   *)
(*    TLA+ strings;                                                        *)
(*  - an Optional value, and a field of a JSON body, is a set: {} is       *)
(*    None / the field left out, {v} is the value v;                       *)
(*  - a float position is an integer number of hundredths (101 is 1.01);   *)
(*  - a collection is the sequence of its documents in insertion order,    *)
(*    the order in which find / find_one / update_one meet them;           *)
(*  - a handler that makes one database call is one action; a handler      *)
(*    that makes several (upsert_progress, seed_demo_data) is one action   *)
(*    per database call, run by one of the server's workers;               *)
(*  - trace is the sequence of requests and responses seen on the wire.    *)
(***************************************************************************)
EXTENDS Integers, Sequences, FiniteSets, TLC

VARIABLES novel, chapter, progress, nextId, pc, req, loc, trace

vars == <<novel, chapter, progress, nextId, pc, req, loc, trace>>

(* ------------------------------ bounds --------------------------------- *)

\* requests the server accepts in one run: to the novel and chapter routes,
\* to the progress routes, to the seed route
MaxCatalogCalls == 3
MaxProgressCalls == 2
MaxSeedCalls == 2

\* concurrent workers of the HTTP runtime
NumWorkers == 2

Procs == 1..NumWorkers

(* ------------------------------- text ---------------------------------- *)

Rep(c, n) == [i \in 1..n |-> c]

HexLower == {"0","1","2","3","4","5","6","7","8","9","a","b","c","d","e","f"}
HexUpper == {"A","B","C","D","E","F"}
HexChars == HexLower \cup HexUpper

HexDigit == <<"0","1","2","3","4","5","6","7","8","9","a","b","c","d","e","f">>

\* binascii.hexlify writes lower case; bytes.fromhex reads both cases
ToLower(c) ==
    CASE c = "A" -> "a" [] c = "B" -> "b" [] c = "C" -> "c"
      [] c = "D" -> "d" [] c = "E" -> "e" [] c = "F" -> "f"
      [] OTHER -> c

(* ----------------------------- ObjectId -------------------------------- *)

\* length of the hexadecimal text of a bson ObjectId (12 bytes)
OidTextLen == 24

\* ObjectId(id_str) succeeds on exactly the 24-character hexadecimal texts
ObjectIdValid(s) == Len(s) = OidTextLen /\ \A i \in 1..Len(s) : s[i] \in HexChars

ObjectId(s) == [oid |-> [i \in 1..Len(s) |-> ToLower(s[i])]]

\* str(ObjectId)
StrOfObjectId(o) == o.oid

\* oid() with the length checked and the digits not
oid_LengthOnly(id_str) ==
    IF Len(id_str) = OidTextLen
    THEN [ok |-> TRUE, value |-> ObjectId(id_str)]
    ELSE [ok |-> FALSE, value |-> ObjectId(<<>>)]

\* oid(): the ObjectId of a text, or HTTP 400
oid(id_str) ==
    IF ObjectIdValid(id_str)
    THEN [ok |-> TRUE, value |-> ObjectId(id_str)]
    ELSE [ok |-> FALSE, value |-> ObjectId(<<>>)]

\* the identifier the store assigns to its n-th inserted document
NewObjectId(n) ==
    [oid |-> Rep("a", OidTextLen - 2) \o <<HexDigit[((n \div 16) % 16) + 1], HexDigit[(n % 16) + 1]>>]

(* ----------------------------- serialize ------------------------------- *)

\* serialize(): "_id" becomes the text field "id".  No other field of the
\* documents this program stores holds an ObjectId (novel_id, chapter_id are
\* stored as text), so the loop over the remaining fields changes nothing.
serialize(doc) ==
    [k \in (DOMAIN doc \ {"_id"}) \cup {"id"} |->
        IF k = "id" THEN StrOfObjectId(doc._id) ELSE doc[k]]

(* --------------------------- request models ---------------------------- *)

Present(body, f) == f \in DOMAIN body /\ body[f] # {}
Val(body, f) == CHOOSE v \in body[f] : TRUE

\* NovelCreate: title, author, description required; cover_url, genres optional
NovelCreateValid(body) ==
    Present(body, "title") /\ Present(body, "author") /\ Present(body, "description")

\* NovelCreate(...).model_dump(): an optional field left out is None
NovelCreateDump(body) ==
    [title |-> Val(body, "title"), author |-> Val(body, "author"),
     description |-> Val(body, "description"),
     cover_url |-> body.cover_url, genres |-> body.genres]

\* ChapterCreate: index, title, content required; index is any int
ChapterCreateValid(body) ==
    Present(body, "index") /\ Present(body, "title") /\ Present(body, "content")

ChapterCreateDump(body) ==
    [index |-> Val(body, "index"), title |-> Val(body, "title"),
     content |-> Val(body, "content")]

\* ProgressUpsert: four required fields; position is any float
ProgressUpsertValid(body) ==
    Present(body, "user_id") /\ Present(body, "novel_id")
    /\ Present(body, "chapter_id") /\ Present(body, "position")

ProgressUpsertDump(body) ==
    [user_id |-> Val(body, "user_id"), novel_id |-> Val(body, "novel_id"),
     chapter_id |-> Val(body, "chapter_id"), position |-> Val(body, "position")]

(* ------------------------------ schemas -------------------------------- *)

\* Novel(**kwargs): genres is List[str]; a genres of None, passed explicitly,
\* is not a list and raises ValidationError (the default_factory applies only
\* to a genres that is not passed at all)
NovelSchemaValid(kw) == kw.genres # {}

NovelSchema(kw) ==
    [title |-> kw.title, author |-> kw.author, description |-> kw.description,
     cover_url |-> kw.cover_url, genres |-> CHOOSE g \in kw.genres : TRUE]

\* Chapter(**kwargs): index has ge=1
ChapterMinIndex == 1

ChapterSchemaValid(kw) == kw.index >= ChapterMinIndex

ChapterSchema(novel_id, kw) ==
    [novel_id |-> novel_id, index |-> kw.index, title |-> kw.title, content |-> kw.content]

(* ------------------------------- store --------------------------------- *)

\* create_document: the record gets the store's next identifier
WithId(data, n) ==
    [k \in DOMAIN data \cup {"_id"} |-> IF k = "_id" THEN NewObjectId(n) ELSE data[k]]

\* find_one({"_id": o}) as an Optional
FindById(coll, o) ==
    LET hits == {i \in 1..Len(coll) : coll[i]._id = o}
    IN  IF hits = {} THEN {} ELSE {coll[CHOOSE i \in hits : \A j \in hits : i <= j]}

(* ------------------------------ the wire ------------------------------- *)

\* an event of the trace. ev: "call" (a request a worker took up), "write"
\* (a write of that worker reached the store), "ret" (its response), "done"
\* (a request answered in one step). db: database calls made for it so far.
Event(ev, p, op, r, status, body, db) ==
    [ev |-> ev, proc |-> p, op |-> op, req |-> r, status |-> status, body |-> body, db |-> db]

Calls == Cardinality({i \in 1..Len(trace) : trace[i].ev \in {"call", "done"}})

MayCall(max) == Calls < max

NoReq == [none |-> TRUE]
NoLoc == [none |-> TRUE]

OK == 200
BadRequest == 400
NotFound == 404
Unprocessable == 422
ServerError == 500

Init ==
    /\ novel = <<>>
    /\ chapter = <<>>
    /\ progress = <<>>
    /\ nextId = 0
    /\ pc = [p \in Procs |-> "idle"]
    /\ req = [p \in Procs |-> NoReq]
    /\ loc = [p \in Procs |-> NoLoc]
    /\ trace = <<>>

Answer(op, r, status, body, db) ==
    trace' = Append(trace, Event("done", 0, op, r, status, body, db))


(* ------------------------- novels and chapters ------------------------- *)

IdText(n) == StrOfObjectId(NewObjectId(n))

ToUpper(c) ==
    CASE c = "a" -> "A" [] c = "b" -> "B" [] c = "c" -> "C"
      [] c = "d" -> "D" [] c = "e" -> "E" [] c = "f" -> "F"
      [] OTHER -> c

UpperText(s) == [i \in 1..Len(s) |-> ToUpper(s[i])]

\* well-formed identifier texts a client sends: the first two the store
\* assigns, the first one in upper case, and one the store never assigns
WellFormedIds == {IdText(0), IdText(1), UpperText(IdText(0)), Rep("f", OidTextLen)}

\* malformed ones: empty, too short, a letter that is no hexadecimal digit,
\* too long
MalformedIds ==
    {<<>>, <<"a", "b", "c">>, Rep("a", OidTextLen - 1) \o <<"g">>, Rep("a", OidTextLen + 1)}

IdInputs == WellFormedIds \cup MalformedIds

NovelBodies ==
    { [title |-> {"T"}, author |-> {"A"}, description |-> {"D"},
       cover_url |-> {"http://c"}, genres |-> {<<"g1", "g2">>}],
      [title |-> {"T"}, author |-> {"A"}, description |-> {"D"},
       cover_url |-> {}, genres |-> {}],
      [title |-> {""}, author |-> {"A"}, description |-> {"D"},
       cover_url |-> {}, genres |-> {<<>>}],
      [title |-> {}, author |-> {"A"}, description |-> {"D"},
       cover_url |-> {}, genres |-> {<<>>}] }

\* novel_id path parameters of the chapter routes: nothing checks them
ChapterNovelIds == {IdText(0), <<"a", "b", "c">>}

ChapterBodies ==
    { [index |-> {i}, title |-> {"t"}, content |-> {"c"}] : i \in {0, 1, 2} }
    \cup { [index |-> {}, title |-> {"t"}, content |-> {"c"}] }

ChapterRequests ==
    { [novel_id |-> IdText(0), body |-> b] : b \in ChapterBodies }
    \cup { [novel_id |-> <<"a", "b", "c">>, body |-> b] :
             b \in { [index |-> {1}, title |-> {"t"}, content |-> {"c"}] } }

\* database.create_document(collection_name, data): insert, return str(_id)
create_document(coll, data, n) == Append(coll, WithId(data, n))

Detail(d) == [detail |-> d]

\* POST /api/novels
create_novel(body) ==
    /\ MayCall(MaxCatalogCalls)
    /\ IF ~NovelCreateValid(body)
       THEN /\ Answer("create_novel", body, Unprocessable, Detail("field required"), 0)
            /\ UNCHANGED <<novel, nextId>>
       ELSE IF ~NovelSchemaValid(NovelCreateDump(body))
       THEN /\ Answer("create_novel", body, ServerError, Detail("Internal Server Error"), 0)
            /\ UNCHANGED <<novel, nextId>>
       ELSE /\ novel' = create_document(novel, NovelSchema(NovelCreateDump(body)), nextId)
            /\ nextId' = nextId + 1
            /\ Answer("create_novel", body, OK, [id |-> IdText(nextId)], 1)
    /\ UNCHANGED <<chapter, progress, pc, req, loc>>

\* GET /api/novels/{novel_id}
get_novel(novel_id) ==
    /\ MayCall(MaxCatalogCalls)
    /\ IF ~oid(novel_id).ok
       THEN Answer("get_novel", novel_id, BadRequest, Detail("Invalid ID format"), 0)
       ELSE LET doc == FindById(novel, oid(novel_id).value)
            IN  IF doc = {}
                THEN Answer("get_novel", novel_id, NotFound, Detail("Novel not found"), 1)
                ELSE Answer("get_novel", novel_id, OK, serialize(Val([d |-> doc], "d")), 1)
    /\ UNCHANGED <<novel, chapter, progress, nextId, pc, req, loc>>

\* find({"novel_id": novel_id}): the matching documents, in store order
FindChapters(novel_id) == SelectSeq(chapter, LAMBDA d : d.novel_id = novel_id)

\* sort("index", 1): the orders the store may return the documents in.  The
\* order of two documents with the same index is the store's choice.
SortedByIndex(s) == \A i, j \in 1..Len(s) : i < j => s[i].index <= s[j].index

\* find without the sort: store order
SortByIndex_Unsorted(docs) == {docs}

SortByIndex(docs) ==
    { [i \in 1..Len(docs) |-> docs[f[i]]] :
        f \in { g \in [1..Len(docs) -> 1..Len(docs)] :
                  /\ \A i, j \in 1..Len(docs) : i # j => g[i] # g[j]
                  /\ SortedByIndex([i \in 1..Len(docs) |-> docs[g[i]]]) } }

\* GET /api/novels/{novel_id}/chapters
list_chapters(novel_id) ==
    /\ MayCall(MaxCatalogCalls)
    /\ \E docs \in SortByIndex(FindChapters(novel_id)) :
         Answer("list_chapters", novel_id, OK,
                [i \in 1..Len(docs) |-> serialize(docs[i])], 1)
    /\ UNCHANGED <<novel, chapter, progress, nextId, pc, req, loc>>

\* POST /api/novels/{novel_id}/chapters
create_chapter(novel_id, body) ==
    LET r == [novel_id |-> novel_id, body |-> body]
    IN  /\ MayCall(MaxCatalogCalls)
        /\ IF ~ChapterCreateValid(body)
           THEN /\ Answer("create_chapter", r, Unprocessable, Detail("field required"), 0)
                /\ UNCHANGED <<chapter, nextId>>
           ELSE IF ~ChapterSchemaValid(ChapterCreateDump(body))
           THEN /\ Answer("create_chapter", r, ServerError, Detail("Internal Server Error"), 0)
                /\ UNCHANGED <<chapter, nextId>>
           ELSE /\ chapter' = create_document(chapter,
                                   ChapterSchema(novel_id, ChapterCreateDump(body)), nextId)
                /\ nextId' = nextId + 1
                /\ Answer("create_chapter", r, OK, [id |-> IdText(nextId)], 1)
        /\ UNCHANGED <<novel, progress, pc, req, loc>>

\* GET /api/chapters/{chapter_id}
get_chapter(chapter_id) ==
    /\ MayCall(MaxCatalogCalls)
    /\ IF ~oid(chapter_id).ok
       THEN Answer("get_chapter", chapter_id, BadRequest, Detail("Invalid ID format"), 0)
       ELSE LET doc == FindById(chapter, oid(chapter_id).value)
            IN  IF doc = {}
                THEN Answer("get_chapter", chapter_id, NotFound, Detail("Chapter not found"), 1)
                ELSE Answer("get_chapter", chapter_id, OK, serialize(Val([d |-> doc], "d")), 1)
    /\ UNCHANGED <<novel, chapter, progress, nextId, pc, req, loc>>

NextCatalog ==
    \/ \E body \in NovelBodies : create_novel(body)
    \/ \E novel_id \in IdInputs : get_novel(novel_id)
    \/ \E novel_id \in ChapterNovelIds : list_chapters(novel_id)
    \/ \E r \in ChapterRequests : create_chapter(r.novel_id, r.body)
    \/ \E chapter_id \in IdInputs : get_chapter(chapter_id)

SpecCatalog == Init /\ [][NextCatalog]_vars

(* ------------------------------ progress ------------------------------ *)

UpsertBody(u, n, c, pos) ==
    [user_id |-> {u}, novel_id |-> {n}, chapter_id |-> {c}, position |-> pos]

UpsertBodies ==
    { UpsertBody("u1", "n1", "c1", {0}),   UpsertBody("u1", "n1", "c2", {100}),
      UpsertBody("u1", "n1", "c1", {-1}),  UpsertBody("u1", "n1", "c2", {101}),
      UpsertBody("u1", "n2", "c1", {50}),  UpsertBody("u1", "n1", "c1", {}) }

ProgressKeys == { [user_id |-> "u1", novel_id |-> n] : n \in {"n1", "n2"} }

\* the filter {"user_id": ..., "novel_id": ...}
Matches(doc, k) == doc.user_id = k.user_id /\ doc.novel_id = k.novel_id

MatchIdx(k) == {i \in 1..Len(progress) : Matches(progress[i], k)}

FirstOf(S) == CHOOSE i \in S : \A j \in S : i <= j

\* find_one(filter) on progress, as an Optional
FindProgress(k) ==
    IF MatchIdx(k) = {} THEN {} ELSE {progress[FirstOf(MatchIdx(k))]}

\* the $set with position left out
SetFields_NoPosition(doc, p) ==
    [doc EXCEPT !.user_id = p.user_id, !.novel_id = p.novel_id,
                !.chapter_id = p.chapter_id]

\* {"$set": {user_id, novel_id, chapter_id, position}} on a matched document
SetFields(doc, p) ==
    [doc EXCEPT !.user_id = p.user_id, !.novel_id = p.novel_id,
                !.chapter_id = p.chapter_id, !.position = p.position]

SerializeOpt(d) == { serialize(x) : x \in d }

Log(ev, p, op, r, status, body, db) ==
    trace' = Append(trace, Event(ev, p, op, r, status, body, db))

\* GET /api/progress/{user_id}/{novel_id}
get_progress(k) ==
    /\ MayCall(MaxProgressCalls)
    /\ Answer("get_progress", k, OK, SerializeOpt(FindProgress(k)), 1)
    /\ UNCHANGED <<novel, chapter, progress, nextId, pc, req, loc>>

\* POST /api/progress: the request reaches a worker; FastAPI answers 422 to a
\* body that is no ProgressUpsert without calling the handler
upsert_progress(p, body) ==
    /\ pc[p] = "idle"
    /\ MayCall(MaxProgressCalls)
    /\ IF ~ProgressUpsertValid(body)
       THEN /\ Log("done", p, "upsert_progress", body, Unprocessable,
                   Detail("field required"), 0)
            /\ UNCHANGED <<pc, req>>
       ELSE /\ Log("call", p, "upsert_progress", ProgressUpsertDump(body), 0, <<>>, 0)
            /\ pc' = [pc EXCEPT ![p] = "update_one"]
            /\ req' = [req EXCEPT ![p] = ProgressUpsertDump(body)]
    /\ UNCHANGED <<novel, chapter, progress, nextId, loc>>

\* update_one(filter, $set, upsert=True), the store's selection of a target:
\* a matching document is updated in place, atomically.  With none matching
\* the store goes on to insert; nothing makes that selection and the insert
\* one atomic step (the collection has no unique index on the filter's
\* fields, see spec.md section 3), so another request's write may fall
\* between them.
update_one(p) ==
    /\ pc[p] = "update_one"
    /\ IF MatchIdx(req[p]) # {}
       THEN /\ progress' = [progress EXCEPT ![FirstOf(MatchIdx(req[p]))] =
                                SetFields(@, req[p])]
            /\ Log("write", p, "upsert_progress", req[p], 0, <<>>, 1)
            /\ pc' = [pc EXCEPT ![p] = "find_one"]
       ELSE /\ pc' = [pc EXCEPT ![p] = "upsert_insert"]
            /\ UNCHANGED <<progress, trace>>
    /\ UNCHANGED <<novel, chapter, nextId, req, loc>>

\* update_one, the insert of the upsert: a new document made of the filter's
\* fields and the $set
upsert_insert(p) ==
    /\ pc[p] = "upsert_insert"
    /\ progress' = Append(progress, WithId(req[p], nextId))
    /\ nextId' = nextId + 1
    /\ Log("write", p, "upsert_progress", req[p], 0, <<>>, 1)
    /\ pc' = [pc EXCEPT ![p] = "find_one"]
    /\ UNCHANGED <<novel, chapter, req, loc>>

\* the re-read and the response
upsert_find_one(p) ==
    /\ pc[p] = "find_one"
    /\ Log("ret", p, "upsert_progress", req[p], OK, SerializeOpt(FindProgress(req[p])), 2)
    /\ pc' = [pc EXCEPT ![p] = "idle"]
    /\ req' = [req EXCEPT ![p] = NoReq]
    /\ UNCHANGED <<novel, chapter, progress, nextId, loc>>

NextProgress ==
    \/ \E k \in ProgressKeys : get_progress(k)
    \/ \E p \in Procs, body \in UpsertBodies : upsert_progress(p, body)
    \/ \E p \in Procs : update_one(p)
    \/ \E p \in Procs : upsert_insert(p)
    \/ \E p \in Procs : upsert_find_one(p)

SpecProgress == Init /\ [][NextProgress]_vars

(* -------------------------------- seed --------------------------------- *)

\* the demo records (descriptions, cover URLs and chapter texts shortened)
DemoNovel1 ==
    [title |-> "Neon Skies of Andromeda", author |-> "Ava Kestrel",
     description |-> "A rogue pilot and a sentient starship ...",
     cover_url |-> {"https://images.unsplash.com/photo-1520975980471-4f0f2c56b05c"},
     genres |-> <<"Sci-Fi", "Space Opera", "Adventure">>]

DemoNovel2 ==
    [title |-> "Quantum Garden", author |-> "Jun Park",
     description |-> "In a city where time blossoms like petals ...",
     cover_url |-> {"https://images.unsplash.com/photo-1526318472351-c75fcf070305"},
     genres |-> <<"Speculative", "Time", "Mystery">>]

DemoChapter1(n1_id) ==
    [novel_id |-> n1_id, index |-> 1, title |-> "Docking Under Neon",
     content |-> "The city-orbit glowed ..."]

DemoChapter2(n1_id) ==
    [novel_id |-> n1_id, index |-> 2, title |-> "Ghost Frequencies",
     content |-> "The transmission carried ..."]

DemoChapter3(n2_id) ==
    [novel_id |-> n2_id, index |-> 1, title |-> "Pruning the Dawn",
     content |-> "Morning arrived in layers ..."]

\* limit(5) of the "exists" answer
SeedLimit == 5

\* the comparison turned round
NovelsExist_Negated(n) == n < 0

\* count_documents({}) > 0
NovelsExist(n) == n > 0

\* limit(1)
Limit_One(s, n) == IF Len(s) <= 1 THEN s ELSE SubSeq(s, 1, 1)

Limit(s, n) == IF Len(s) <= n THEN s ELSE SubSeq(s, 1, n)

SerializeAll(s) == [i \in 1..Len(s) |-> serialize(s[i])]

SeedBody(status, novels) == [status |-> status, novels |-> novels]

\* POST /api/seed: the request reaches a worker, which counts the novels
seed_demo_data(p) ==
    /\ pc[p] = "idle"
    /\ MayCall(MaxSeedCalls)
    /\ Log("call", p, "seed_demo_data", <<>>, 0, <<>>, 1)
    /\ pc' = [pc EXCEPT ![p] = IF NovelsExist(Len(novel)) THEN "seed_exists" ELSE "seed_n1"]
    /\ loc' = [loc EXCEPT ![p] = [n1_id |-> <<>>, n2_id |-> <<>>]]
    /\ UNCHANGED <<novel, chapter, progress, nextId, req>>

\* novels already exist: find({}).limit(5), status "exists"
seed_exists(p) ==
    /\ pc[p] = "seed_exists"
    /\ Log("ret", p, "seed_demo_data", <<>>, OK,
           SeedBody("exists", SerializeAll(Limit(novel, SeedLimit))), 2)
    /\ pc' = [pc EXCEPT ![p] = "idle"]
    /\ loc' = [loc EXCEPT ![p] = NoLoc]
    /\ UNCHANGED <<novel, chapter, progress, nextId, req>>

\* n1_id = create_document("novel", n1); n2_id = create_document("novel", n2)
seed_create_novel(p) ==
    /\ pc[p] \in {"seed_n1", "seed_n2"}
    /\ novel' = create_document(novel, IF pc[p] = "seed_n1" THEN DemoNovel1 ELSE DemoNovel2,
                                nextId)
    /\ nextId' = nextId + 1
    /\ loc' = [loc EXCEPT ![p] = IF pc[p] = "seed_n1"
                                 THEN [@ EXCEPT !.n1_id = IdText(nextId)]
                                 ELSE [@ EXCEPT !.n2_id = IdText(nextId)]]
    /\ pc' = [pc EXCEPT ![p] = IF pc[p] = "seed_n1" THEN "seed_n2" ELSE "seed_ch1"]
    /\ UNCHANGED <<chapter, progress, req, trace>>

\* create_document("chapter", ch1), ("chapter", ch2), ("chapter", ch3)
seed_create_chapter(p) ==
    /\ pc[p] \in {"seed_ch1", "seed_ch2", "seed_ch3"}
    /\ chapter' = create_document(chapter,
                     CASE pc[p] = "seed_ch1" -> DemoChapter1(loc[p].n1_id)
                       [] pc[p] = "seed_ch2" -> DemoChapter2(loc[p].n1_id)
                       [] pc[p] = "seed_ch3" -> DemoChapter3(loc[p].n2_id),
                     nextId)
    /\ nextId' = nextId + 1
    /\ pc' = [pc EXCEPT ![p] = CASE pc[p] = "seed_ch1" -> "seed_ch2"
                                 [] pc[p] = "seed_ch2" -> "seed_ch3"
                                 [] pc[p] = "seed_ch3" -> "seed_seeded"]
    /\ UNCHANGED <<novel, progress, req, loc, trace>>

\* find({}) of all novels, status "seeded"
seed_seeded(p) ==
    /\ pc[p] = "seed_seeded"
    /\ Log("ret", p, "seed_demo_data", <<>>, OK, SeedBody("seeded", SerializeAll(novel)), 7)
    /\ pc' = [pc EXCEPT ![p] = "idle"]
    /\ loc' = [loc EXCEPT ![p] = NoLoc]
    /\ UNCHANGED <<novel, chapter, progress, nextId, req>>

NextSeed ==
    \/ \E p \in Procs : seed_demo_data(p)
    \/ \E p \in Procs : seed_exists(p)
    \/ \E p \in Procs : seed_create_novel(p)
    \/ \E p \in Procs : seed_create_chapter(p)
    \/ \E p \in Procs : seed_seeded(p)

SpecSeed == Init /\ [][NextSeed]_vars

(* ---------------------------- the whole API ---------------------------- *)

Next == NextCatalog \/ NextProgress \/ NextSeed

Spec == Init /\ [][Next]_vars

(* ------------------------------- claims -------------------------------- *)

Idx == 1..Len(trace)

MaxOf(S) == CHOOSE i \in S : \A j \in S : j <= i

\* the request event a response event answers
CallOf(j) ==
    IF trace[j].ev = "done" THEN j
    ELSE MaxOf({i \in 1..j : trace[i].ev = "call" /\ trace[i].proc = trace[j].proc})

\* no two requests were in progress at the same time: whatever follows a
\* worker's call and is not that worker's, follows its response too
NoOverlap ==
    \A i, j \in Idx :
        (i < j /\ trace[i].ev = "call" /\ trace[j].proc # trace[i].proc) =>
            \E r \in (i + 1)..(j - 1) : trace[r].ev = "ret" /\ trace[r].proc = trace[i].proc

WritesTo(k) ==
    {i \in Idx : trace[i].ev = "write" /\ trace[i].op = "upsert_progress"
                 /\ Matches(trace[i].req, k)}

\* C1: once upsert_progress has written for a (user_id, novel_id) pair, the
\* progress collection holds exactly one record for the pair, whose position
\* is that of the write applied last, also when calls for the pair race.
C1_OneRecordPerPair ==
    \A k \in ProgressKeys :
        WritesTo(k) # {} =>
            /\ Cardinality(MatchIdx(k)) = 1
            /\ \A i \in MatchIdx(k) :
                   progress[i].position = trace[MaxOf(WritesTo(k))].req.position

\* Progress.position: ge=0.0, le=1.0, in hundredths
PositionMin == 0
PositionMax == 100

InRange(pos) == PositionMin <= pos /\ pos <= PositionMax

\* C2: upsert_progress accepts a position of exactly 0.0 or 1.0 and answers
\* 422 to a position below 0.0 or above 1.0, which never reaches the progress
\* collection.
C2_PositionBoundary ==
    /\ \A i \in Idx : trace[i].op = "upsert_progress" =>
          /\ trace[i].ev = "call" => InRange(trace[i].req.position)
          /\ (trace[i].ev = "done" /\ Present(trace[i].req, "position")) =>
                 (trace[i].status = Unprocessable /\ ~InRange(Val(trace[i].req, "position")))
    /\ \A i \in 1..Len(progress) : InRange(progress[i].position)

GenresOf(body) == IF body.genres = {} THEN <<>> ELSE Val(body, "genres")

\* C3: create_novel of a valid payload succeeds, and get_novel of the id it
\* returned yields title, author, description, cover_url and genres equal to
\* the input, genres being the empty list when the payload left it out.
C3_NovelRoundTrip ==
    \A i \in Idx :
        (trace[i].op = "create_novel" /\ NovelCreateValid(trace[i].req)) =>
            /\ trace[i].status = OK
            /\ \A j \in Idx :
                  (j > i /\ trace[j].op = "get_novel" /\ trace[j].req = trace[i].body.id) =>
                      /\ trace[j].status = OK
                      /\ trace[j].body.title = Val(trace[i].req, "title")
                      /\ trace[j].body.author = Val(trace[i].req, "author")
                      /\ trace[j].body.description = Val(trace[i].req, "description")
                      /\ trace[j].body.cover_url = trace[i].req.cover_url
                      /\ trace[j].body.genres = GenresOf(trace[i].req)

Rejected400(i) == trace[i].status = BadRequest /\ trace[i].db = 0

DemoTitles == <<DemoNovel1.title, DemoNovel2.title>>

Titles(novels) == [i \in 1..Len(novels) |-> novels[i].title]

SeedCallThenReturn(i) ==
    /\ Len(trace) >= i + 1
    /\ trace[i].ev = "call" /\ trace[i].op = "seed_demo_data"
    /\ trace[i + 1].ev = "ret" /\ trace[i + 1].proc = trace[i].proc

\* C5: from an empty store, of two seed_demo_data calls made one after the
\* other the first inserts exactly 2 novels and 3 chapters and answers
\* "seeded" with those 2 novels; the second answers "exists" with the same 2
\* novels and leaves the sizes of both collections as they were.
C5_SeedTwice ==
    /\ SeedCallThenReturn(1) =>
          /\ trace[2].body.status = "seeded"
          /\ Titles(trace[2].body.novels) = DemoTitles
          /\ Len(trace) = 2 => (Len(novel) = 2 /\ Len(chapter) = 3)
    /\ (SeedCallThenReturn(1) /\ SeedCallThenReturn(3)) =>
          /\ trace[4].body.status = "exists"
          /\ trace[4].body.novels = trace[2].body.novels
          /\ Len(trace) = 4 => (Len(novel) = 2 /\ Len(chapter) = 3)

C5_Witness ==
    /\ Len(trace) = 4
    /\ SeedCallThenReturn(1) /\ SeedCallThenReturn(3)
    /\ trace[4].body.status = "exists"

\* C6: create_chapter with an index below 1 is answered 422 and stores no
\* chapter.
C6_ChapterIndexRejected ==
    /\ \A i \in Idx :
          (trace[i].op = "create_chapter" /\ Present(trace[i].req.body, "index")
           /\ Val(trace[i].req.body, "index") < ChapterMinIndex)
              => trace[i].status = Unprocessable
    /\ \A i \in 1..Len(chapter) : chapter[i].index >= ChapterMinIndex

\* C7: create_novel with an empty title is answered 422, and no stored novel
\* has an empty title.
C7_NoEmptyTitle ==
    /\ \A i \in Idx :
          (trace[i].op = "create_novel" /\ Present(trace[i].req, "title")
           /\ Val(trace[i].req, "title") = "")
              => trace[i].status = Unprocessable
    /\ \A i \in 1..Len(novel) : novel[i].title # ""

\* the chapters created under novel_id before event i: the creating events
CreatedBefore(i, novel_id) ==
    {c \in 1..(i - 1) : /\ trace[c].op = "create_chapter"
                        /\ trace[c].status = OK
                        /\ trace[c].req.novel_id = novel_id}

\* C8: list_chapters returns exactly the chapters stored under the given
\* novel_id, each once, in non-decreasing order of index, whatever the order
\* of their creation; chapters with the same index are all returned.
C8_ListChapters ==
    \A i \in Idx : trace[i].op = "list_chapters" =>
        LET body == trace[i].body
            made == CreatedBefore(i, trace[i].req)
        IN  /\ Len(body) = Cardinality(made)
            /\ \A c \in made : \E n \in 1..Len(body) :
                   /\ body[n].id = trace[c].body.id
                   /\ body[n].index = Val(trace[c].req.body, "index")
                   /\ body[n].novel_id = trace[i].req
            /\ \A m, n \in 1..Len(body) : m < n => body[m].index <= body[n].index

C8_Witness ==
    \E i \in Idx :
        /\ trace[i].op = "list_chapters"
        /\ Len(trace[i].body) = 2
        /\ \E c, d \in CreatedBefore(i, trace[i].req) :
              c < d /\ Val(trace[c].req.body, "index") > Val(trace[d].req.body, "index")

UpsertReturns == {j \in Idx : trace[j].ev = "ret" /\ trace[j].op = "upsert_progress"}

OwnPayload(j) ==
    \A d \in trace[j].body :
        /\ d.chapter_id = trace[j].req.chapter_id
        /\ d.position = trace[j].req.position

\* another worker's write to the pair between the call and its response
WriteBetween(j) ==
    \E w \in WritesTo(trace[j].req) :
        CallOf(j) < w /\ w < j /\ trace[w].proc # trace[j].proc

\* C9 as stated: the document upsert_progress returns carries the user_id,
\* novel_id, chapter_id and position of the call's own payload, also when
\* another upsert_progress for the pair runs between the update and the
\* re-read.
C9_ReturnsOwnPayload ==
    \A j \in UpsertReturns :
        /\ trace[j].body # {}
        /\ \A d \in trace[j].body : Matches(d, trace[j].req)
        /\ OwnPayload(j)

\* C9 as amended: the document upsert_progress returns is the record its
\* re-read finds for the payload's pair: it is never absent and carries the
\* payload's user_id and novel_id; its chapter_id and position are the
\* payload's whenever no other upsert_progress wrote to the pair between the
\* call's arrival and its re-read.
C9_ReturnsReread ==
    \A j \in UpsertReturns :
        /\ trace[j].body # {}
        /\ \A d \in trace[j].body : Matches(d, trace[j].req)
        /\ ~WriteBetween(j) => OwnPayload(j)

C9_Witness ==
    \E j \in UpsertReturns :
        /\ ~WriteBetween(j)
        /\ OwnPayload(j)
        /\ \E i \in CallOf(j)..j :
              /\ trace[i].proc # trace[j].proc
              /\ trace[i].ev = "call"
              /\ Matches(trace[i].req, trace[j].req)
              /\ trace[i].req.position # trace[j].req.position

\* calls whose count_documents found no novel: those that answered "seeded"
\* and those now inserting
EmptyChecks ==
    Cardinality({j \in Idx : trace[j].ev = "ret" /\ trace[j].op = "seed_demo_data"
                             /\ trace[j].body.status = "seeded"})
    + Cardinality({p \in Procs : pc[p] \in {"seed_n1", "seed_n2", "seed_ch1", "seed_ch2",
                                            "seed_ch3", "seed_seeded"}})

\* C10 as stated: with only seed_demo_data calls running from an empty
\* store, in any interleaving the store never holds more than 2 novels and 3
\* chapters.
C10_NeverMoreThanOneSeed == Len(novel) <= 2 /\ Len(chapter) <= 3

\* C10 as amended: seed_demo_data inserts only when no novel existed at the
\* time of its count_documents check: from an empty store with only
\* seed_demo_data calls running, the store never holds more than 2 novels and
\* 3 chapters for each call whose check found no novel, and never more than 2
\* novels and 3 chapters when no two calls overlap.
C10_SeedPerEmptyCheck ==
    /\ Len(novel) <= 2 * EmptyChecks
    /\ Len(chapter) <= 3 * EmptyChecks
    /\ NoOverlap => (Len(novel) <= 2 /\ Len(chapter) <= 3)

C10_Witness ==
    /\ EmptyChecks = 2
    /\ Len(novel) = 4
    /\ Len(chapter) = 6

=============================================================================
